---- MODULE Spec2Model ----
(***************************************************************************)
(* pypgwire: the frontend decoder (protocol/frontend.py), the backend      *)
(* message encoders (protocol/backend.py), the GeneratorHandler            *)
(* (handler.py) and the PostgresProtocol connection (server.py).           *)
(*                                                                         *)
(* Bytes are the integers 0..255, a bytes object or a str is the sequence  *)
(* of its bytes / ASCII codes.  Python's None is the value NoneVal.        *)
(* A raised exception is a record field exc holding the exception's name,  *)
(* "" meaning that nothing was raised.                                     *)
(***************************************************************************)
EXTENDS Integers, Sequences, FiniteSets, TLC

\* ------------------------------------------------------------------ bounds

\* Chunks the client sends on one connection (data_received calls).
MaxChunks == 3
\* Rows the adapter's factory returns (0..MaxRows).
MaxRows == 2

\* ------------------------------------------------------------------ python values

NoneVal == <<-1>>

Min(a, b) == IF a < b THEN a ELSE b

\* data[a:b] with 0 <= a
Slice(data, a, b) == SubSeq(data, a + 1, Min(b, Len(data)))

\* data[a:]
SliceFrom(data, a) == SubSeq(data, a + 1, Len(data))

RECURSIVE Concat(_)
Concat(ss) == IF ss = <<>> THEN <<>> ELSE Head(ss) \o Concat(Tail(ss))

\* struct.pack('>I', n) for 0 <= n < 2^31
PackU32(n) ==
    << (n \div 16777216) % 256, (n \div 65536) % 256, (n \div 256) % 256, n % 256 >>

\* struct.pack('>i', n) for -2^31 <= n < 2^31: two's complement
PackI32(n) ==
    IF n >= 0 THEN PackU32(n)
    ELSE LET m == (n + 2147483647) + 1
         IN  << 128 + (m \div 16777216), (m \div 65536) % 256, (m \div 256) % 256, m % 256 >>

\* struct.pack('>H', n) for 0 <= n < 65536
PackU16(n) == << (n \div 256) % 256, n % 256 >>

\* struct.pack('>h', n) for -32768 <= n < 32768
PackI16(n) == PackU16(IF n < 0 THEN n + 65536 ELSE n)

\* struct.unpack('>I', b)[0] for a 4-byte b.  The model's integers end at
\* 2^31 - 1: a value of 2^31 - 2 or more is read as 2^31 - 2, which is as far
\* above every buffer length and as different from every protocol code.
UnpackU32(b) ==
    IF b[1] >= 128 \/ (b[1] = 127 /\ b[2] = 255 /\ b[3] = 255 /\ b[4] >= 254)
    THEN 2147483646
    ELSE b[1] * 16777216 + b[2] * 65536 + b[3] * 256 + b[4]

\* str(n) for n >= 0, as ASCII codes
RECURSIVE Str(_)
Str(n) == IF n < 10 THEN << 48 + n >> ELSE Str(n \div 10) \o << 48 + (n % 10) >>

\* str.upper() on ASCII text
Upper(s) == [i \in 1..Len(s) |-> IF s[i] >= 97 /\ s[i] <= 122 THEN s[i] - 32 ELSE s[i]]

\* str.lower() on ASCII text
Lower(s) == [i \in 1..Len(s) |-> IF s[i] >= 65 /\ s[i] <= 90 THEN s[i] + 32 ELSE s[i]]

\* str.isspace() / regex \s on ASCII
IsSpace(ch) == ch \in {9, 10, 11, 12, 13, 28, 29, 30, 31, 32}

\* regex \w on ASCII
IsWord(ch) ==
    \/ ch >= 48 /\ ch <= 57
    \/ ch >= 65 /\ ch <= 90
    \/ ch >= 97 /\ ch <= 122
    \/ ch = 95

\* str.strip()
Strip(s) ==
    LET nonsp == {i \in 1..Len(s) : ~IsSpace(s[i])}
    IN  IF nonsp = {} THEN <<>>
        ELSE LET lo == CHOOSE i \in nonsp : \A j \in nonsp : i <= j
                 hi == CHOOSE i \in nonsp : \A j \in nonsp : i >= j
             IN  SubSeq(s, lo, hi)

\* s.startswith(p)
StartsWith(s, p) == Len(s) >= Len(p) /\ SubSeq(s, 1, Len(p)) = p

\* p in s (substring)
Contains(s, p) ==
    \E i \in 0..(Len(s) - Len(p)) : SubSeq(s, i + 1, i + Len(p)) = p

\* ------------------------------------------------------------------ frontend.py

FRONTEND_SSL_REQUEST == 80877103
FRONTEND_STARTUP == 196608
FRONTEND_CANCEL_REQUEST == 80877102

\* A frontend message object: its class and the one attribute the class keeps
\* (Query.query, Parse.parse, Bind.name, Describe.name); StartupMessage keeps
\* protocol and parameters.  The decoder's "None" message is type "None".
FrontendMessage(type, text) ==
    [type |-> type, text |-> text, protocol |-> 0, parameters |-> <<>>]

StartupMessage(protocol, parameters) ==
    [type |-> "StartupMessage", text |-> <<>>, protocol |-> protocol,
     parameters |-> parameters]

\* FrontendDecoder._read_cstring
read_cstring(data) ==
    LET nuls == {i \in 1..Len(data) : data[i] = 0}
    IN  IF nuls = {} THEN data
        ELSE SubSeq(data, 1, (CHOOSE i \in nuls : \A j \in nuls : i <= j) - 1)

\* params[key] = value on a dict kept as a sequence of <<key, value>> pairs in
\* insertion order
DictSet(params, key, value) ==
    IF \E i \in 1..Len(params) : params[i][1] = key
    THEN [i \in 1..Len(params) |->
            IF params[i][1] = key THEN <<key, value>> ELSE params[i]]
    ELSE Append(params, <<key, value>>)

\* FrontendDecoder._read_cstring_map: the while loop from index i on
RECURSIVE read_cstring_map_from(_, _, _)
read_cstring_map_from(data, i, params) ==
    IF i < Len(data)
    THEN LET key == read_cstring(SliceFrom(data, i))
         IN  IF key = <<>> THEN params
             ELSE LET i2 == i + Len(key) + 1
                      value == read_cstring(SliceFrom(data, Min(i2, Len(data))))
                  IN  read_cstring_map_from(data, i2 + Len(value) + 1,
                                            DictSet(params, key, value))
    ELSE params

read_cstring_map(data) == read_cstring_map_from(data, 0, <<>>)

DecodeNone == [res |-> "None"]
DecodeRaise(exc) == [res |-> "raise", exc |-> exc]
Decoded(message, consumed, seen, ssl) ==
    [res |-> "ok", message |-> message, consumed |-> consumed,
     startup_seen |-> seen, ssl_negotiated |-> ssl]

\* decode's pre-startup branch, had it set startup_seen for an SSLRequest too
decode_startup_ssl_seen(seen, ssl, data) ==
    LET length == UnpackU32(Slice(data, 0, 4))
    IN  IF Len(data) < length THEN DecodeNone
        ELSE IF Len(data) < 8 THEN DecodeRaise("struct.error")
        ELSE LET protocol == UnpackU32(Slice(data, 4, 8))
             IN  IF protocol = FRONTEND_SSL_REQUEST
                 THEN Decoded(FrontendMessage("SSLRequest", <<>>), length, TRUE, TRUE)
                 ELSE IF protocol = FRONTEND_STARTUP
                 THEN Decoded(StartupMessage(protocol, read_cstring_map(SliceFrom(data, 8))),
                              length, TRUE, ssl)
                 ELSE IF protocol = FRONTEND_CANCEL_REQUEST
                 THEN DecodeRaise("NotImplementedError")
                 ELSE DecodeRaise("ValueError")

\* FrontendDecoder.decode, pre-startup branch
decode_startup(seen, ssl, data) ==
    LET length == UnpackU32(Slice(data, 0, 4))
    IN  IF Len(data) < length THEN DecodeNone
        ELSE IF Len(data) < 8 THEN DecodeRaise("struct.error")
        ELSE LET protocol == UnpackU32(Slice(data, 4, 8))
             IN  IF protocol = FRONTEND_SSL_REQUEST
                 THEN Decoded(FrontendMessage("SSLRequest", <<>>), length, seen, TRUE)
                 ELSE IF protocol = FRONTEND_STARTUP
                 THEN Decoded(StartupMessage(protocol, read_cstring_map(SliceFrom(data, 8))),
                              length, TRUE, ssl)
                 ELSE IF protocol = FRONTEND_CANCEL_REQUEST
                 THEN DecodeRaise("NotImplementedError")
                 ELSE DecodeRaise("ValueError")

\* decode's post-startup branch, had it counted only the length field's value
\* as consumed for a tag it has no branch for
decode_regular_unknown_short(seen, ssl, data) ==
    IF Len(data) < 5 THEN DecodeRaise("struct.error")
    ELSE
    LET message_type == data[1]
        length == UnpackU32(Slice(data, 1, 5))
    IN  IF Len(data) < 1 + length THEN DecodeNone
        ELSE LET payload == Slice(data, 5, 1 + length)
                 message ==
                     CASE message_type = 81 -> FrontendMessage("Query", read_cstring(payload))
                       [] message_type = 80 -> FrontendMessage("Parse", read_cstring(payload))
                       [] message_type = 66 -> FrontendMessage("Bind", <<>>)
                       [] message_type = 68 ->
                            FrontendMessage("Describe", read_cstring(SliceFrom(payload, Min(1, Len(payload)))))
                       [] message_type = 72 -> FrontendMessage("Flush", <<>>)
                       [] message_type = 83 -> FrontendMessage("Sync", <<>>)
                       [] message_type = 69 -> FrontendMessage("Execute", <<>>)
                       [] message_type = 88 -> FrontendMessage("Terminate", <<>>)
                       [] OTHER -> FrontendMessage("None", <<>>)
             IN  Decoded(message, IF message.type = "None" THEN length ELSE 1 + length,
                         seen, ssl)

\* FrontendDecoder.decode, post-startup branch
decode_regular(seen, ssl, data) ==
    IF Len(data) < 5 THEN DecodeRaise("struct.error")
    ELSE
    LET message_type == data[1]
        length == UnpackU32(Slice(data, 1, 5))
    IN  IF Len(data) < 1 + length THEN DecodeNone
        ELSE LET payload == Slice(data, 5, 1 + length)
                 consumed == 1 + length
                 message ==
                     CASE message_type = 81 -> FrontendMessage("Query", read_cstring(payload))
                       [] message_type = 80 -> FrontendMessage("Parse", read_cstring(payload))
                       [] message_type = 66 -> FrontendMessage("Bind", <<>>)
                       [] message_type = 68 ->
                            FrontendMessage("Describe", read_cstring(SliceFrom(payload, Min(1, Len(payload)))))
                       [] message_type = 72 -> FrontendMessage("Flush", <<>>)
                       [] message_type = 83 -> FrontendMessage("Sync", <<>>)
                       [] message_type = 69 -> FrontendMessage("Execute", <<>>)
                       [] message_type = 88 -> FrontendMessage("Terminate", <<>>)
                       [] OTHER -> FrontendMessage("None", <<>>)
             IN  Decoded(message, consumed, seen, ssl)

\* FrontendDecoder.decode(data) on a decoder whose flags are seen and ssl
decode(seen, ssl, data) ==
    IF Len(data) < 4 THEN DecodeNone
    ELSE IF ~seen THEN decode_startup(seen, ssl, data)
    ELSE decode_regular(seen, ssl, data)

\* ------------------------------------------------------------------ backend.py

OID_TEXT == 25
OID_INT8 == 20
OID_INT2 == 21
OID_INT4 == 23
OID_FLOAT8 == 701
OID_NUMERIC == 1700

\* to_sqltype(index, field_name, schema, typ); schema is NoneVal or a list of
\* OIDs, typ is "None", "int", "float", "Decimal" or another type's name
to_sqltype(index, field_name, schema, typ) ==
    LET by_schema == schema # NoneVal /\ 0 <= index /\ index < Len(schema)
        oid == IF by_schema THEN schema[index + 1]
               ELSE IF typ = "int" THEN OID_INT4
               ELSE IF typ = "float" THEN OID_FLOAT8
               ELSE IF typ = "Decimal" THEN OID_NUMERIC
               ELSE OID_TEXT
        format == IF by_schema
                  THEN (IF oid \in {OID_INT8, OID_INT2, OID_INT4, OID_FLOAT8, OID_NUMERIC}
                        THEN 1 ELSE 0)
                  ELSE IF typ \in {"int", "float", "Decimal"} THEN 1 ELSE 0
        type_size == IF by_schema THEN -1
                     ELSE IF typ = "int" THEN 4
                     ELSE IF typ = "float" THEN 8
                     ELSE -1
    IN  [name |-> field_name, table_oid |-> 0, column_attr |-> 0, type_oid |-> oid,
         type_size |-> type_size, type_mod |-> -1, format |-> format]

\* The backend message objects
AuthenticationOk == [type |-> "AuthenticationOk"]
BackendKeyData(pid, key) == [type |-> "BackendKeyData", pid |-> pid, key |-> key]
\* ReadyForQuery.__init__'s default status, b'I'
ReadyForQueryStatus == <<73>>
ReadyForQuery(status) == [type |-> "ReadyForQuery", status |-> status]
RowDescription(fields) == [type |-> "RowDescription", fields |-> fields]
CommandComplete(rows, command) ==
    [type |-> "CommandComplete", rows |-> rows, command |-> command]
ParameterStatus(name, value) ==
    [type |-> "ParameterStatus", name |-> name, value |-> value]
ParseComplete == [type |-> "ParseComplete"]
ParameterDescription(parameter_types) == [type |-> "ParameterDescription"]
BindComplete == [type |-> "BindComplete"]
ErrorResponse(severity, code, message) ==
    [type |-> "ErrorResponse",
     fields |-> << <<83, severity>>, <<67, code>>, <<77, message>> >>]

\* DataRow(*args): __init__ takes (values, fields, text_encoding) and has no
\* defaults, any other number of arguments is a TypeError
DataRow(args) ==
    IF Len(args) = 3
    THEN [exc |-> "", obj |-> [type |-> "DataRow", values |-> args[1],
                               fields |-> args[2], text_encoding |-> args[3]]]
    ELSE [exc |-> "TypeError", obj |-> NoneVal]

\* RowDescription.encode: the bytes of one field
encode_field(field) ==
    field.name \o <<0>>
    \o PackU32(field.table_oid) \o PackI16(field.column_attr)
    \o PackU32(field.type_oid) \o PackI16(field.type_size)
    \o PackI32(field.type_mod) \o PackI16(field.format)

\* ErrorResponse.encode: the bytes of the fields and the final NUL
encode_error_fields(fields) ==
    Concat([i \in 1..Len(fields) |-> <<fields[i][1]>> \o fields[i][2] \o <<0>>]) \o <<0>>

\* <BackendMessage>.encode() for the messages the handler and the connection build
encode(m) ==
    CASE m.type = "AuthenticationOk" -> <<82>> \o PackU32(8) \o PackU32(0)
      [] m.type = "BackendKeyData" ->
            <<75>> \o PackU32(12) \o PackU32(m.pid) \o PackU32(m.key)
      [] m.type = "ReadyForQuery" -> <<90>> \o PackU32(5) \o <<m.status[1]>>
      [] m.type = "RowDescription" ->
            LET data == PackU16(Len(m.fields))
                        \o Concat([i \in 1..Len(m.fields) |-> encode_field(m.fields[i])])
            IN  <<84>> \o PackU32(4 + Len(data)) \o data
      [] m.type = "CommandComplete" ->
            LET tag == m.command \o <<32>> \o Str(m.rows) \o <<0>>
            IN  <<67>> \o PackU32(4 + Len(tag)) \o tag
      [] m.type = "ParameterStatus" ->
            LET data == m.name \o <<0>> \o m.value \o <<0>>
            IN  <<83>> \o PackU32(4 + Len(data)) \o data
      [] m.type = "ParseComplete" -> <<49>> \o PackU32(4)
      [] m.type = "ParameterDescription" -> <<116>> \o PackU32(6) \o PackU16(0)
      [] m.type = "BindComplete" -> <<50>> \o PackU32(4)
      [] m.type = "ErrorResponse" ->
            LET data == encode_error_fields(m.fields)
            IN  <<69>> \o PackU32(4 + Len(data)) \o data
      [] m.type = "EmptyQueryResponse" -> <<73>> \o PackU32(4)

EmptyQueryResponse == [type |-> "EmptyQueryResponse"]

\* What a call returns or raises: exc is "" and bytes the value returned, or
\* exc names the exception
Bytes(bytes) == [exc |-> "", bytes |-> bytes]
Raises(exc) == [exc |-> exc, bytes |-> <<>>]

\* struct.pack('>h...', *ns): a value outside -32768..32767 is a struct.error
FitsI16(n) == -32768 <= n /\ n <= 32767
pack_h(ns) ==
    IF \A i \in 1..Len(ns) : FitsI16(ns[i])
    THEN Bytes(Concat([i \in 1..Len(ns) |-> PackI16(ns[i])]))
    ELSE Raises("struct.error")

\* struct.pack('>q', n) for -2^31 <= n < 2^31
PackI64(n) ==
    (IF n < 0 THEN <<255, 255, 255, 255>> ELSE <<0, 0, 0, 0>>) \o PackI32(n)

NUMERIC_SIGN_POS == 0
NUMERIC_SIGN_NEG == 16384
NUMERIC_SIGN_NAN == 49152

\* decimal.Decimal: a finite value is (-1)^sign * digits * 10^exponent, digits
\* being the tuple of decimal digits as_tuple() returns
Decimal(sign, digits, exponent) ==
    [kind |-> "finite", sign |-> sign, digits |-> digits, exponent |-> exponent]
DecimalNaN(sign) == [kind |-> "NaN", sign |-> sign, digits |-> <<>>, exponent |-> 0]
DecimalInfinity(sign) == [kind |-> "Infinity", sign |-> sign, digits |-> <<>>, exponent |-> 0]

\* b ** n for n >= 0
RECURSIVE Pow(_, _)
Pow(b, n) == IF n = 0 THEN 1 ELSE b * Pow(b, n - 1)

\* int(''.join(str(d) for d in digits10))
RECURSIVE digits_to_int(_)
digits_to_int(digits10) ==
    IF digits10 = <<>> THEN 0
    ELSE 10 * digits_to_int(SubSeq(digits10, 1, Len(digits10) - 1)) + digits10[Len(digits10)]

\* _encode_numeric: the divmod loop and the reverse, most significant
\* base-10000 digit first
RECURSIVE base10000(_)
base10000(tmp) ==
    IF tmp = 0 THEN <<>> ELSE base10000(tmp \div 10000) \o <<tmp % 10000>>

\* _encode_numeric: pop(0) while the first digit is 0, one off the weight
\* for each
RECURSIVE strip_leading(_, _)
strip_leading(digits10000, weight) ==
    IF digits10000 # <<>> /\ digits10000[1] = 0
    THEN strip_leading(Tail(digits10000), weight - 1)
    ELSE [digits |-> digits10000, weight |-> weight]

\* _encode_numeric: pop() while the last digit is 0
RECURSIVE strip_trailing(_)
strip_trailing(digits10000) ==
    IF digits10000 # <<>> /\ digits10000[Len(digits10000)] = 0
    THEN strip_trailing(SubSeq(digits10000, 1, Len(digits10000) - 1))
    ELSE digits10000

\* the sign code, had negative zero kept its sign
numeric_sign_code_signed(v, coefficient) ==
    IF v.sign = 1 THEN NUMERIC_SIGN_NEG ELSE NUMERIC_SIGN_POS

\* _encode_numeric: the sign code of a finite v with the given coefficient
numeric_sign_code(v, coefficient) ==
    IF coefficient = 0 THEN NUMERIC_SIGN_POS
    ELSE IF v.sign = 1 THEN NUMERIC_SIGN_NEG ELSE NUMERIC_SIGN_POS

\* the weight, had the groups after the decimal point not been taken off
numeric_weight_no_scale(digits10000, scale_groups) ==
    IF digits10000 # <<>> THEN Len(digits10000) - 1 ELSE 0

\* _encode_numeric: the weight before the zero groups are stripped
numeric_weight(digits10000, scale_groups) ==
    IF digits10000 # <<>> THEN Len(digits10000) - scale_groups - 1 ELSE 0

\* _encode_numeric for a NaN: struct.pack('>hhhh', 0, 0, NUMERIC_SIGN_NAN, 0)
numeric_nan(v) ==
    LET payload == pack_h(<<0, 0, NUMERIC_SIGN_NAN, 0>>)
    IN  IF payload.exc # "" THEN payload
        ELSE Bytes(PackU32(Len(payload.bytes)) \o payload.bytes)

\* _encode_numeric(v)
encode_numeric(v) ==
    IF v.kind = "NaN" THEN numeric_nan(v)
    ELSE IF v.kind = "Infinity" THEN Raises("ValueError")
    ELSE
    LET digits10 == IF v.digits = <<>> THEN <<0>> ELSE v.digits
        exponent == v.exponent
        coefficient == IF exponent >= 0
                       THEN digits_to_int(digits10) * Pow(10, exponent)
                       ELSE digits_to_int(digits10)
        dscale == IF exponent >= 0 THEN 0 ELSE -exponent
        sign_code == numeric_sign_code(v, coefficient)
        scale_groups == (dscale + 3) \div 4
        pad == scale_groups * 4 - dscale
        coefficient_adj == coefficient * Pow(10, pad)
        all == base10000(coefficient_adj)
        led == strip_leading(all, numeric_weight(all, scale_groups))
        digits10000 == strip_trailing(led.digits)
        ndigits == Len(digits10000)
        weight == IF ndigits = 0 THEN 0 ELSE led.weight
        header == pack_h(<<ndigits, weight, sign_code, dscale>>)
        digits == pack_h(digits10000)
    IN  IF header.exc # "" THEN header
        ELSE IF digits.exc # "" THEN digits
        ELSE LET payload == header.bytes \o digits.bytes
             IN  Bytes(PackU32(Len(payload)) \o payload)

\* A Python value of a row: None, an int, a str or a Decimal
PyNone == [t |-> "None", n |-> 0, s |-> <<>>, d |-> DecimalNaN(0)]
PyInt(n) == [t |-> "int", n |-> n, s |-> <<>>, d |-> DecimalNaN(0)]
PyStr(s) == [t |-> "str", n |-> 0, s |-> s, d |-> DecimalNaN(0)]
PyDecimal(d) == [t |-> "Decimal", n |-> 0, s |-> <<>>, d |-> d]

\* str(value).encode('utf-8') for an int or a str
str_encode(value) ==
    CASE value.t = "int" ->
            IF value.n < 0 THEN <<45>> \o Str(-value.n) ELSE Str(value.n)
      [] value.t = "str" -> value.s

\* ENCODERS[oid](value): _encode_int2, _encode_int4, _encode_int8 and
\* _encode_numeric; struct.pack raises struct.error for a value that is no int
encode_binary(oid, value) ==
    CASE oid = OID_INT2 ->
            IF value.t = "int" /\ FitsI16(value.n)
            THEN Bytes(PackU32(2) \o PackI16(value.n)) ELSE Raises("struct.error")
      [] oid = OID_INT4 ->
            IF value.t = "int"
            THEN Bytes(PackU32(4) \o PackI32(value.n)) ELSE Raises("struct.error")
      [] oid = OID_INT8 ->
            IF value.t = "int"
            THEN Bytes(PackU32(8) \o PackI64(value.n)) ELSE Raises("struct.error")
      [] oid = OID_NUMERIC ->
            IF value.t = "Decimal" THEN encode_numeric(value.d) ELSE Raises("AttributeError")
      [] OTHER -> Raises("KeyError")

\* DataRow.encode: the bytes added for the i-th value; struct.pack('>I', -1)
\* is a struct.error
encode_value(self, i) ==
    LET value == self.values[i]
    IN  IF value.t = "None" THEN Raises("struct.error")
        ELSE IF i > Len(self.fields) THEN Raises("IndexError")
        ELSE LET field == self.fields[i]
             IN  IF self.text_encoding \/ field.format = 0
                 THEN LET val_bytes == str_encode(value)
                      IN  Bytes(PackU32(Len(val_bytes)) \o val_bytes)
                 ELSE encode_binary(field.type_oid, value)

\* DataRow.encode()
DataRow_encode(self) ==
    LET parts == [i \in 1..Len(self.values) |-> encode_value(self, i)]
        failed == {i \in 1..Len(parts) : parts[i].exc # ""}
    IN  IF failed # {}
        THEN Raises(parts[CHOOSE i \in failed : \A j \in failed : i <= j].exc)
        ELSE LET data == PackU16(Len(self.values))
                         \o Concat([i \in 1..Len(parts) |-> parts[i].bytes])
             IN  Bytes(<<68>> \o PackU32(4 + Len(data)) \o data)

\* <BackendMessage>.encode() for every message class
encode_message(m) ==
    IF m.type = "DataRow" THEN DataRow_encode(m) ELSE Bytes(encode(m))

\* ------------------------------------------------------------------ handler.py

\* b'SELECT' / 'SELECT'
SELECT == <<83, 69, 76, 69, 67, 84>>
\* 'FROM'
FROM == <<70, 82, 79, 77>>

\* The class argument of GeneratorHandler: None, or a class with its __name__,
\* its __annotations__ (a list of [name, typ]) and whether the class has an
\* attribute called name.
NoClass == [is_none |-> TRUE, has_name |-> FALSE, name |-> <<>>, annotations |-> <<>>]
Class(name, annotations, has_name) ==
    [is_none |-> FALSE, has_name |-> has_name, name |-> name, annotations |-> annotations]

\* bool(v) of a str or None
Truthy(v) == v # NoneVal /\ v # <<>>

\* GeneratorHandler.__init__(factory, cls).  The factory is a record: the
\* annotations of the dataclass of its rows, and the rows it returns (each the
\* list of the row's attribute values), whatever the sql.
GeneratorHandler(factory, cls) ==
    IF ~cls.is_none /\ ~cls.has_name
    THEN [exc |-> "AttributeError", self |-> NoneVal]
    ELSE IF cls.is_none /\ factory.rows = <<>>
    THEN [exc |-> "IndexError", self |-> NoneVal]
    ELSE LET annotations == IF cls.is_none THEN factory.annotations ELSE cls.annotations
             columns == [i \in 1..Len(annotations) |-> Lower(annotations[i].name)]
         IN  [exc |-> "",
              self |-> [table_name |-> IF cls.is_none THEN NoneVal ELSE Lower(cls.name),
                        columns |-> columns,
                        factory |-> factory,
                        fields |-> [i \in 1..Len(columns) |->
                                      to_sqltype(i - 1, columns[i], NoneVal, "None")]]]

\* ContainerHandler.__init__(container, cls): cls is not passed on
ContainerHandler(container, cls) ==
    IF container.rows = <<>>
    THEN [exc |-> "ValueError", self |-> NoneVal]
    ELSE GeneratorHandler(container, NoClass)

\* What a handler method returns or raises: exc, the list of backend messages,
\* and the sql arguments the factory was called with on the way.
Returned(messages, sqls) == [exc |-> "", messages |-> messages, sqls |-> sqls]
Raised(exc, sqls) == [exc |-> exc, messages |-> <<>>, sqls |-> sqls]

\* asdict(row).get(col) for a row of the factory
row_get(factory, row, col) ==
    LET at == {i \in 1..Len(factory.annotations) : factory.annotations[i].name = col}
    IN  IF at = {} THEN NoneVal ELSE row[CHOOSE i \in at : TRUE]

\* _data_to_messages, had it counted one row too many in CommandComplete
data_to_messages_count_off(self, sql) ==
    LET data == self.factory.rows
        rows_data == [r \in 1..Len(data) |->
                        [i \in 1..Len(self.columns) |->
                            row_get(self.factory, data[r], Lower(self.columns[i]))]]
        rows == [r \in 1..Len(rows_data) |-> DataRow(<<rows_data[r]>>)]
        bad == {r \in 1..Len(rows) : rows[r].exc # ""}
    IN  IF bad # {}
        THEN Raised(rows[CHOOSE r \in bad : \A q \in bad : r <= q].exc, <<sql>>)
        ELSE Returned(<<RowDescription(self.fields)>>
                      \o [r \in 1..Len(rows) |-> rows[r].obj]
                      \o <<CommandComplete(Len(rows_data) + 1, SELECT),
                           ReadyForQuery(ReadyForQueryStatus)>>,
                      <<sql>>)

\* GeneratorHandler._data_to_messages(sql)
data_to_messages(self, sql) ==
    LET data == self.factory.rows
        rows_data == [r \in 1..Len(data) |->
                        [i \in 1..Len(self.columns) |->
                            row_get(self.factory, data[r], Lower(self.columns[i]))]]
        rows == [r \in 1..Len(rows_data) |-> DataRow(<<rows_data[r]>>)]
        bad == {r \in 1..Len(rows) : rows[r].exc # ""}
    IN  IF bad # {}
        THEN Raised(rows[CHOOSE r \in bad : \A q \in bad : r <= q].exc, <<sql>>)
        ELSE Returned(<<RowDescription(self.fields)>>
                      \o [r \in 1..Len(rows) |-> rows[r].obj]
                      \o <<CommandComplete(Len(rows_data), SELECT),
                           ReadyForQuery(ReadyForQueryStatus)>>,
                      <<sql>>)

\* The last index of the run of whitespace that starts at index i of text,
\* i - 1 when there is none
space_run_end(text, i) ==
    IF i > Len(text) THEN i - 1
    ELSE LET ends == {e \in (i - 1)..Len(text) : \A j \in i..e : IsSpace(text[j])}
         IN  CHOOSE e \in ends : \A o \in ends : e >= o

\* r'SELECT\s+(.+?)\s+FROM\s+(\w+)' with the columns ending at index b: the
\* second \s+ ends at select_c, FROM is at select_c+1..select_c+4, the third
\* \s+ ends at select_d.  Each of the two is followed by a character that is
\* no whitespace, so it is a whole run.
select_c(text, b) == space_run_end(text, b + 1)
select_d(text, b) == space_run_end(text, select_c(text, b) + 5)

\* The ways the regex matches at the start of text: <<a, b>> with text[7..a]
\* the first \s+ and text[a+1..b] the columns
select_matches(text) ==
    IF ~StartsWith(text, SELECT) THEN {}
    ELSE LET n == Len(text)
         IN  {m \in (7..n) \X (8..n) :
                LET c == select_c(text, m[2])
                    d == select_d(text, m[2])
                IN  /\ m[1] < m[2] /\ m[2] < c /\ c + 4 < d /\ d < n
                    /\ \A i \in 7..m[1] : IsSpace(text[i])
                    /\ \A i \in (m[1] + 1)..m[2] : text[i] # 10
                    /\ SubSeq(text, c + 1, c + 4) = FROM
                    /\ IsWord(text[d + 1])}

\* The match the regex engine returns: the first \s+ greedy, the columns lazy
select_match(text) ==
    LET ms == select_matches(text)
    IN  CHOOSE m \in ms : \A o \in ms : m[1] > o[1] \/ (m[1] = o[1] /\ m[2] <= o[2])

\* group 2 of the match: the longest run of word characters after the third \s+
select_table(text) ==
    LET first == select_d(text, select_match(text)[2]) + 1
        ends == {e \in first..Len(text) : \A i \in first..e : IsWord(text[i])}
    IN  SubSeq(text, first, CHOOSE e \in ends : \A o \in ends : e >= o)

\* GeneratorHandler._handle_select(query)
handle_select(self, query) ==
    IF select_matches(Upper(query)) = {}
    THEN Raised("ValueError", <<>>)
    ELSE LET table_name == Lower(select_table(Upper(query)))
         IN  IF Truthy(self.table_name) /\ ~Contains(table_name, self.table_name)
             THEN Raised("ValueError", <<>>)
             ELSE data_to_messages(self, query)

\* handle_query, had it served a statement that is no SELECT instead of raising
handle_query_any(self, msg) ==
    LET query == Upper(Strip(msg.text))
    IN  IF StartsWith(Upper(query), SELECT)
        THEN handle_select(self, msg.text)
        ELSE data_to_messages(self, msg.text)

\* GeneratorHandler.handle_query(msg)
handle_query(self, msg) ==
    LET query == Upper(Strip(msg.text))
    IN  IF StartsWith(Upper(query), SELECT)
        THEN handle_select(self, msg.text)
        ELSE Raised("NotImplementedError", <<>>)

\* GeneratorHandler.handle_bind(msg)
handle_bind(self, msg) == Returned(<<BindComplete>>, <<>>)

\* GeneratorHandler.handle_execute(msg)
handle_execute(self, msg) == data_to_messages(self, NoneVal)

\* handle_parse, had it left out the ParameterDescription
handle_parse_no_parameters(self, msg) ==
    Returned(<<ParseComplete, RowDescription(self.fields)>>, <<>>)

\* GeneratorHandler.handle_parse(msg)
handle_parse(self, msg) ==
    Returned(<<ParseComplete, ParameterDescription(<<>>), RowDescription(self.fields)>>, <<>>)

\* 'server_version', '9.2', 'server_encoding', 'UTF8', 'client_encoding',
\* 'DateStyle', 'ISO YMB'
str_server_version == <<115, 101, 114, 118, 101, 114, 95, 118, 101, 114, 115, 105, 111, 110>>
str_9_2 == <<57, 46, 50>>
str_server_encoding == <<115, 101, 114, 118, 101, 114, 95, 101, 110, 99, 111, 100, 105, 110, 103>>
str_UTF8 == <<85, 84, 70, 56>>
str_client_encoding == <<99, 108, 105, 101, 110, 116, 95, 101, 110, 99, 111, 100, 105, 110, 103>>
str_DateStyle == <<68, 97, 116, 101, 83, 116, 121, 108, 101>>
str_ISO_YMB == <<73, 83, 79, 32, 89, 77, 66>>

\* handle_startup, had it sent BackendKeyData before the ParameterStatus list
handle_startup_key_first(self, msg) ==
    Returned(<<AuthenticationOk,
               BackendKeyData(1, 2),
               ParameterStatus(str_server_version, str_9_2),
               ParameterStatus(str_server_encoding, str_UTF8),
               ParameterStatus(str_client_encoding, str_UTF8),
               ParameterStatus(str_DateStyle, str_ISO_YMB),
               ReadyForQuery(ReadyForQueryStatus)>>, <<>>)

\* GeneratorHandler.handle_startup(msg)
handle_startup(self, msg) ==
    Returned(<<AuthenticationOk,
               ParameterStatus(str_server_version, str_9_2),
               ParameterStatus(str_server_encoding, str_UTF8),
               ParameterStatus(str_client_encoding, str_UTF8),
               ParameterStatus(str_DateStyle, str_ISO_YMB),
               BackendKeyData(1, 2),
               ReadyForQuery(ReadyForQueryStatus)>>, <<>>)

\* ------------------------------------------------------------------ server.py

\* What PostgresProtocol._handle_message(message) does to the transport: the
\* write calls in order and whether close is called; exc is the exception
\* the try block caught, sqls the factory calls made.
Handled(writes, close, exc, sqls) ==
    [writes |-> writes, close |-> close, exc |-> exc, sqls |-> sqls]

\* The handler call of _handle_message, had Terminate been given no response
handler_responses_terminate_silent(handler, message) ==
    CASE message.type = "StartupMessage" -> handle_startup(handler, message)
      [] message.type = "Query" -> handle_query(handler, message)
      [] message.type = "Parse" -> handle_parse(handler, message)
      [] message.type = "Bind" -> handle_bind(handler, message)
      [] message.type = "Execute" -> handle_execute(handler, message)
      [] OTHER -> Returned(<<>>, <<>>)

\* The handler call of _handle_message, by the class of the message
handler_responses(handler, message) ==
    CASE message.type = "StartupMessage" -> handle_startup(handler, message)
      [] message.type = "Query" -> handle_query(handler, message)
      [] message.type = "Parse" -> handle_parse(handler, message)
      [] message.type = "Bind" -> handle_bind(handler, message)
      [] message.type = "Execute" -> handle_execute(handler, message)
      [] message.type = "Terminate" ->
            Returned(<<ReadyForQuery(ReadyForQueryStatus)>>, <<>>)
      [] OTHER -> Returned(<<>>, <<>>)

\* PostgresProtocol._handle_message(message)
handle_message(handler, message) ==
    IF message.type = "SSLRequest" THEN Handled(<< <<78>> >>, FALSE, "", <<>>)
    ELSE IF message.type = "Flush" THEN Handled(<<>>, FALSE, "", <<>>)
    ELSE LET responses == handler_responses(handler, message)
         IN  IF responses.exc # ""
             THEN Handled(<<>>, TRUE, responses.exc, responses.sqls)
             ELSE Handled([i \in 1..Len(responses.messages) |-> encode(responses.messages[i])],
                          message.type = "Terminate", "", responses.sqls)

\* ------------------------------------------------------------------ the client's frames

\* A pre-startup frame: int32 length, int32 protocol, payload
StartupFrame(protocol, payload) ==
    PackU32(8 + Len(payload)) \o PackU32(protocol) \o payload

\* A regular frame: tag, int32 length, payload
Frame(tag, payload) == <<tag>> \o PackU32(4 + Len(payload)) \o payload

\* 'SELECT a FROM t', 'select a from T', 'UPDATE t SET a=1', 'SELECT 1',
\* 'SELECT a FROM u'
sql_select == <<83, 69, 76, 69, 67, 84, 32, 97, 32, 70, 82, 79, 77, 32, 116>>
sql_select_lower == <<115, 101, 108, 101, 99, 116, 32, 97, 32, 102, 114, 111, 109, 32, 84>>
sql_update == <<85, 80, 68, 65, 84, 69, 32, 116, 32, 83, 69, 84, 32, 97, 61, 49>>
sql_select_1 == <<83, 69, 76, 69, 67, 84, 32, 49>>
sql_select_u == <<83, 69, 76, 69, 67, 84, 32, 97, 32, 70, 82, 79, 77, 32, 117>>

\* user\0x\0\0
startup_parameters == <<117, 115, 101, 114, 0, 120, 0, 0>>

QueryFrame(query) == Frame(81, query \o <<0>>)
\* Parse: statement name, query, int16 number of parameter types
ParseFrame(name, query) == Frame(80, name \o <<0>> \o query \o <<0>> \o PackU16(0))

\* Bind: portal, statement, no parameter formats, parameters or result formats
BindFrame == Frame(66, <<0, 0, 0, 0, 0, 0, 0, 0>>)
\* Describe: a statement, unnamed
DescribeFrame == Frame(68, <<83, 0>>)
\* Execute: portal, int32 row limit
ExecuteFrame == Frame(69, <<0, 0, 0, 0, 0>>)
FlushFrame == Frame(72, <<>>)
SyncFrame == Frame(83, <<>>)
TerminateFrame == Frame(88, <<>>)
\* Close of a statement: a tag the decoder has no branch for
CloseFrame == Frame(67, <<83, 0>>)

SqlTexts == {sql_select, sql_select_lower, sql_update, sql_select_1, sql_select_u}

PreStartupFrames ==
    { StartupFrame(FRONTEND_SSL_REQUEST, <<>>),
      StartupFrame(FRONTEND_STARTUP, <<>>),
      StartupFrame(FRONTEND_STARTUP, startup_parameters),
      StartupFrame(FRONTEND_CANCEL_REQUEST, PackU32(1) \o PackU32(2)) }

RegularFrames ==
    { QueryFrame(q) : q \in SqlTexts }
    \cup { ParseFrame(<<>>, sql_select), ParseFrame(<<>>, sql_update) }
    \cup { BindFrame, DescribeFrame, ExecuteFrame, FlushFrame, SyncFrame,
           TerminateFrame, CloseFrame }

\* The record shape of the rows: id: int, n: str
RowAnnotations == << [name |-> <<105, 100>>, typ |-> "int"], [name |-> <<110>>, typ |-> "str"] >>

\* A factory returning k rows: id 1, 2, ... and n 'a', 'b', ...
Factory(k) == [annotations |-> RowAnnotations, rows |-> [r \in 1..k |-> <<r, <<96 + r>>>>]]

\* class T with the row's annotations and an attribute name
ClassT == Class(<<84>>, RowAnnotations, TRUE)

\* The handlers a server can be started with
Handlers ==
    { r.self : r \in { r \in { ContainerHandler(Factory(k), NoClass) : k \in 0..MaxRows }
                              \cup { GeneratorHandler(Factory(k), ClassT) : k \in 0..MaxRows }
                        : r.exc = "" } }

\* ------------------------------------------------------------------ the connections

Conns == {1, 2}

VARIABLES
    handler,         \* the handler start_server was given, shared by the connections
    buffer,          \* PostgresProtocol.buffer
    startup_seen,    \* FrontendDecoder.startup_seen
    ssl_negotiated,  \* FrontendDecoder.ssl_negotiated
    pc,              \* "idle": between data_received calls; "loop": at the top of
                     \* the while loop; "raised": an exception left data_received
    written,         \* the transport.write calls in order, the bytes of each
    closed_at,       \* -1, or the number of write calls before the first transport.close()
    handled,         \* per message passed to _handle_message: the bytes decode
                     \* consumed for it, the message, and what handling it did
    sent,            \* the number of data_received calls
    calc             \* a call of the decoder or of an encoder on its own: the
                     \* function, its argument and, once done, its result

vars == <<handler, buffer, startup_seen, ssl_negotiated, pc, written, closed_at, handled,
          sent, calc>>

\* No call of that kind
NoCalc == [op |-> "none", done |-> TRUE]

Init ==
    /\ handler \in Handlers
    /\ buffer = [c \in Conns |-> <<>>]
    /\ startup_seen = [c \in Conns |-> FALSE]
    /\ ssl_negotiated = [c \in Conns |-> FALSE]
    /\ pc = [c \in Conns |-> "idle"]
    /\ written = [c \in Conns |-> <<>>]
    /\ closed_at = [c \in Conns |-> -1]
    /\ handled = [c \in Conns |-> <<>>]
    /\ sent = [c \in Conns |-> 0]
    /\ calc = NoCalc

\* What a client sends in one write before startup: one frame, or an
\* SSLRequest or a StartupMessage with the next frame behind it
PreStartupChunks ==
    PreStartupFrames
    \cup { StartupFrame(FRONTEND_SSL_REQUEST, <<>>) \o StartupFrame(FRONTEND_STARTUP, <<>>),
           StartupFrame(FRONTEND_STARTUP, <<>>) \o QueryFrame(sql_select) }

\* What a client sends in one write after startup: one frame, or a pipeline
RegularChunks ==
    RegularFrames
    \cup { Concat(<<ParseFrame(<<>>, q), BindFrame, ExecuteFrame, SyncFrame>>) :
             q \in {sql_select, sql_update} }
    \cup { Concat(<<ParseFrame(<<>>, sql_select), BindFrame, SyncFrame>>),
           Concat(<<ParseFrame(<<>>, sql_select), DescribeFrame, FlushFrame>>),
           Concat(<<QueryFrame(sql_update), QueryFrame(sql_select), ParseFrame(<<>>, sql_select)>>),
           Concat(<<TerminateFrame, ParseFrame(<<>>, sql_select)>>),
           Concat(<<CloseFrame, FlushFrame, QueryFrame(sql_select)>>) }

Chunks(c) == IF startup_seen[c] THEN RegularChunks ELSE PreStartupChunks

\* data_received(data) up to the while loop; the event loop calls it while the
\* transport is open
DataReceived(c) ==
    /\ pc[c] = "idle"
    /\ closed_at[c] = -1
    /\ sent[c] < MaxChunks
    /\ \E data \in Chunks(c) : buffer' = [buffer EXCEPT ![c] = @ \o data]
    /\ pc' = [pc EXCEPT ![c] = "loop"]
    /\ sent' = [sent EXCEPT ![c] = @ + 1]
    /\ UNCHANGED <<handler, startup_seen, ssl_negotiated, written, closed_at, handled, calc>>

\* The while loop: decode returns None, break
LoopBreak(c) ==
    /\ pc[c] = "loop"
    /\ decode(startup_seen[c], ssl_negotiated[c], buffer[c]).res = "None"
    /\ pc' = [pc EXCEPT ![c] = "idle"]
    /\ UNCHANGED <<handler, buffer, startup_seen, ssl_negotiated, written, closed_at,
                   handled, sent, calc>>

\* The while loop: decode raises, and the exception leaves data_received
LoopRaise(c) ==
    /\ pc[c] = "loop"
    /\ decode(startup_seen[c], ssl_negotiated[c], buffer[c]).res = "raise"
    /\ pc' = [pc EXCEPT ![c] = "raised"]
    /\ UNCHANGED <<handler, buffer, startup_seen, ssl_negotiated, written, closed_at,
                   handled, sent, calc>>

\* LoopMessage with one FrontendDecoder for all connections
LoopMessage_shared_decoder(c) ==
    /\ pc[c] = "loop"
    /\ LET result == decode(startup_seen[c], ssl_negotiated[c], buffer[c])
       IN  /\ result.res = "ok"
           /\ LET did == handle_message(handler, result.message)
              IN  /\ buffer' = [buffer EXCEPT ![c] = SliceFrom(@, result.consumed)]
                  /\ startup_seen' = [d \in Conns |-> result.startup_seen]
                  /\ ssl_negotiated' = [d \in Conns |-> result.ssl_negotiated]
                  /\ written' = [written EXCEPT ![c] = @ \o did.writes]
                  /\ closed_at' = [closed_at EXCEPT ![c] =
                                      IF did.close /\ @ = -1
                                      THEN Len(written[c]) + Len(did.writes) ELSE @]
                  /\ handled' = [handled EXCEPT ![c] =
                                    Append(@, [frame |-> SubSeq(buffer[c], 1, result.consumed),
                                               message |-> result.message,
                                               first |-> Len(written[c]) + 1,
                                               count |-> Len(did.writes),
                                               close |-> did.close,
                                               exc |-> did.exc,
                                               sqls |-> did.sqls])]
    /\ UNCHANGED <<handler, pc, sent, calc>>

\* The while loop: decode returns a message (an object of a FrontendMessage
\* class, or the None of an unknown tag); the consumed bytes are dropped and
\* _handle_message runs
LoopMessage(c) ==
    /\ pc[c] = "loop"
    /\ LET result == decode(startup_seen[c], ssl_negotiated[c], buffer[c])
       IN  /\ result.res = "ok"
           /\ LET did == handle_message(handler, result.message)
              IN  /\ buffer' = [buffer EXCEPT ![c] = SliceFrom(@, result.consumed)]
                  /\ startup_seen' = [startup_seen EXCEPT ![c] = result.startup_seen]
                  /\ ssl_negotiated' = [ssl_negotiated EXCEPT ![c] = result.ssl_negotiated]
                  /\ written' = [written EXCEPT ![c] = @ \o did.writes]
                  /\ closed_at' = [closed_at EXCEPT ![c] =
                                      IF did.close /\ @ = -1
                                      THEN Len(written[c]) + Len(did.writes) ELSE @]
                  /\ handled' = [handled EXCEPT ![c] =
                                    Append(@, [frame |-> SubSeq(buffer[c], 1, result.consumed),
                                               message |-> result.message,
                                               first |-> Len(written[c]) + 1,
                                               count |-> Len(did.writes),
                                               close |-> did.close,
                                               exc |-> did.exc,
                                               sqls |-> did.sqls])]
    /\ UNCHANGED <<handler, pc, sent, calc>>

Step(c) ==
    \/ DataReceived(c)
    \/ LoopBreak(c)
    \/ LoopRaise(c)
    \/ LoopMessage(c)

\* One client connection
Next == Step(1)

Spec == Init /\ [][Next]_vars

\* ------------------------------------------------------------------ several connections

\* data_received calls of all connections together (0..MaxConcurrentChunks).
MaxConcurrentChunks == 2

\* create_server makes one PostgresProtocol per connection, each with the
\* handler start_server was given; the event loop calls data_received of any
\* open connection
ConcurrentDataReceived(c) ==
    /\ sent[1] + sent[2] < MaxConcurrentChunks
    /\ DataReceived(c)

ConcurrentStep(c) ==
    \/ ConcurrentDataReceived(c)
    \/ LoopBreak(c)
    \/ LoopRaise(c)
    \/ LoopMessage(c)

ConcurrentNext == ConcurrentStep(1) \/ ConcurrentStep(2)

ConcurrentSpec == Init /\ [][ConcurrentNext]_vars

\* ------------------------------------------------------------------ the codec on its own

\* Regular frames behind the StartupMessage of a stream (0..MaxStreamFrames).
MaxStreamFrames == 2
\* SSLRequests before the StartupMessage of a stream (0..MaxSSLRequests).
MaxSSLRequests == 2
\* Values of a DataRow, fields of a RowDescription (0..MaxValues).
MaxValues == 2
\* Decimal digits of a Decimal's coefficient (0..MaxDigits).
MaxDigits == 3
\* A Decimal's exponent (-MaxExponent..MaxExponent).
MaxExponent == 4

\* The sequences over S of at most n elements
SeqsUpTo(S, n) == UNION { [1..k -> S] : k \in 0..n }

\* data_received's while loop without _handle_message: decode the buffer and
\* drop the consumed bytes until decode returns None or raises.  A decode
\* that consumes nothing and leaves both flags as they were is followed by
\* the same decode for ever: res is "loop".
RECURSIVE decode_all(_, _, _, _)
decode_all(seen, ssl, data, decoded) ==
    LET result == decode(seen, ssl, data)
    IN  IF result.res # "ok"
        THEN [res |-> result.res, decoded |-> decoded, buffer |-> data,
              startup_seen |-> seen, ssl_negotiated |-> ssl]
        ELSE IF /\ result.consumed = 0
                /\ result.startup_seen = seen
                /\ result.ssl_negotiated = ssl
        THEN [res |-> "loop", decoded |-> decoded, buffer |-> data,
              startup_seen |-> seen, ssl_negotiated |-> ssl]
        ELSE decode_all(result.startup_seen, result.ssl_negotiated,
                        SliceFrom(data, result.consumed),
                        Append(decoded, [message |-> result.message,
                                         consumed |-> result.consumed]))

\* A frame of the client, with the class of the message it carries
KindFrame(kind, bytes) == [kind |-> kind, bytes |-> bytes]

\* 's1'
statement_name == <<115, 49>>

SSLRequestFrames == { KindFrame("SSLRequest", StartupFrame(FRONTEND_SSL_REQUEST, <<>>)) }
StartupMessageFrames ==
    { KindFrame("StartupMessage", StartupFrame(FRONTEND_STARTUP, <<>>)),
      KindFrame("StartupMessage", StartupFrame(FRONTEND_STARTUP, startup_parameters)) }
MessageFrames ==
    { KindFrame("Query", QueryFrame(sql_select)),
      KindFrame("Parse", ParseFrame(<<>>, sql_select)),
      KindFrame("Parse", ParseFrame(statement_name, sql_update)),
      KindFrame("Bind", BindFrame),
      KindFrame("Describe", DescribeFrame),
      KindFrame("Execute", ExecuteFrame),
      KindFrame("Flush", FlushFrame),
      KindFrame("Sync", SyncFrame),
      KindFrame("Terminate", TerminateFrame) }

\* The valid streams: SSLRequests, one StartupMessage, then Q, P, B, D, E, H,
\* S and X frames
ValidStreams ==
    { ssl \o <<startup>> \o rest :
        ssl \in SeqsUpTo(SSLRequestFrames, MaxSSLRequests),
        startup \in StartupMessageFrames,
        rest \in SeqsUpTo(MessageFrames, MaxStreamFrames) }

\* The proper prefixes of one valid frame, with the decoder's phase
ProperFramePrefixes ==
    UNION { { [seen |-> f.kind \notin {"SSLRequest", "StartupMessage"}, ssl |-> ssl,
               frame |-> f.bytes, data |-> SubSeq(f.bytes, 1, n)] :
                ssl \in BOOLEAN, n \in 0..(Len(f.bytes) - 1) } :
            f \in SSLRequestFrames \cup StartupMessageFrames \cup MessageFrames }

\* Texts of the backend messages: '', 'a', 'UTF8'
BackendTexts == { <<>>, <<97>>, str_UTF8 }

\* The fields a RowDescription and a DataRow are given
FieldSamples ==
    { to_sqltype(0, <<105, 100>>, NoneVal, typ) : typ \in {"None", "int", "float", "Decimal"} }
    \cup { to_sqltype(0, <<110>>, <<oid>>, "None") :
              oid \in {OID_TEXT, OID_INT8, OID_INT2, OID_INT4, OID_NUMERIC} }

\* 3.50, -123.45, 4.125
DecimalExamples ==
    { Decimal(0, <<3, 5, 0>>, -2), Decimal(1, <<1, 2, 3, 4, 5>>, -2),
      Decimal(0, <<4, 1, 2, 5>>, -3) }

DecimalDigits == {0, 1, 5, 9}

\* The Decimals: every sign, coefficient and exponent in the bounds, the
\* examples, NaN and Infinity
Decimals ==
    { Decimal(sign, digits, exponent) :
        sign \in {0, 1}, digits \in SeqsUpTo(DecimalDigits, MaxDigits),
        exponent \in (-MaxExponent)..MaxExponent }
    \cup DecimalExamples
    \cup { DecimalNaN(sign) : sign \in {0, 1} }
    \cup { DecimalInfinity(sign) : sign \in {0, 1} }

\* A column of a row: the value and the field it is described by
Column(value, field) == [value |-> value, field |-> field]

TextColumns ==
    { Column(v, to_sqltype(0, <<110>>, NoneVal, "None")) :
        v \in { PyNone, PyStr(<<>>), PyStr(<<97, 98>>), PyInt(12), PyInt(-3) } }

BinaryColumns ==
    { Column(PyInt(7), to_sqltype(0, <<105, 100>>, NoneVal, "int")),
      Column(PyInt(-2), to_sqltype(0, <<105, 100>>, <<OID_INT8>>, "None")),
      Column(PyInt(300), to_sqltype(0, <<105, 100>>, <<OID_INT2>>, "None")),
      Column(PyDecimal(Decimal(0, <<3, 5, 0>>, -2)), to_sqltype(0, <<105>>, NoneVal, "Decimal")),
      Column(PyDecimal(DecimalNaN(0)), to_sqltype(0, <<105>>, NoneVal, "Decimal")) }

\* DataRow(values, fields, text_encoding) over the columns; a Decimal is only
\* sent in binary
DataRows ==
    { DataRow(<<[i \in 1..Len(cols) |-> cols[i].value],
                [i \in 1..Len(cols) |-> cols[i].field], FALSE>>).obj :
        cols \in SeqsUpTo(TextColumns \cup BinaryColumns, MaxValues) }
    \cup { DataRow(<<[i \in 1..Len(cols) |-> cols[i].value],
                      [i \in 1..Len(cols) |-> cols[i].field], TRUE>>).obj :
              cols \in SeqsUpTo(TextColumns, MaxValues) }

\* class User with the row's annotations and an attribute name
ClassUser == Class(<<85, 115, 101, 114>>, RowAnnotations, TRUE)

\* The handlers a query is put to: with the declared table 't' or 'user', or
\* with none
QueryHandlers ==
    { r.self : r \in { r \in { ContainerHandler(Factory(k), NoClass) : k \in 0..MaxRows }
                              \cup { GeneratorHandler(Factory(k), cls) :
                                        k \in 0..MaxRows, cls \in {ClassT, ClassUser} }
                        : r.exc = "" } }

\* 't', 'u', 'tt', 'user', 'USER', 'users', 'superuser'
TableNames ==
    { <<116>>, <<117>>, <<116, 116>>, <<117, 115, 101, 114>>, <<85, 83, 69, 82>>,
      <<117, 115, 101, 114, 115>>, <<115, 117, 112, 101, 114, 117, 115, 101, 114>> }

\* 'SELECT a FROM <table>'
select_from(table) == <<83, 69, 76, 69, 67, 84, 32, 97, 32, 70, 82, 79, 77, 32>> \o table

\* The buffers a connection may hold before startup: a header with a declared
\* length of 0 to 8 and the SSLRequest or the startup code, alone or with a
\* Terminate frame behind it
ShortFrames ==
    { PackU32(length) \o PackU32(protocol) \o rest :
        length \in 0..8, protocol \in {FRONTEND_SSL_REQUEST, FRONTEND_STARTUP},
        rest \in {<<>>, TerminateFrame} }

Calc(op, arg) == [op |-> op, arg |-> arg, done |-> FALSE, out |-> NoneVal]

\* The calls: decode on a proper prefix of a frame, the decode loop on a
\* whole stream, encode() of a message of each class, _encode_numeric
CodecInit ==
    /\ handler = ContainerHandler(Factory(1), NoClass).self
    /\ buffer = [c \in Conns |-> <<>>]
    /\ startup_seen = [c \in Conns |-> FALSE]
    /\ ssl_negotiated = [c \in Conns |-> FALSE]
    /\ pc = [c \in Conns |-> "idle"]
    /\ written = [c \in Conns |-> <<>>]
    /\ closed_at = [c \in Conns |-> -1]
    /\ handled = [c \in Conns |-> <<>>]
    /\ sent = [c \in Conns |-> 0]
    /\ \/ \E x \in ProperFramePrefixes : calc = Calc("decode", x)
       \/ \E x \in ValidStreams : calc = Calc("decode_all", x)
       \/ \E v \in Decimals : calc = Calc("encode_numeric", v)
       \/ calc \in { Calc("encode", m) : m \in {AuthenticationOk} }
       \/ \E pid \in {0, 1, 65536}, key \in {0, 2, 65536} :
             calc = Calc("encode", BackendKeyData(pid, key))
       \/ \E name \in BackendTexts, value \in BackendTexts :
             calc = Calc("encode", ParameterStatus(name, value))
       \/ \E status \in {<<73>>, <<84>>, <<69>>} : calc = Calc("encode", ReadyForQuery(status))
       \/ \E fields \in SeqsUpTo(FieldSamples, MaxValues) :
             calc = Calc("encode", RowDescription(fields))
       \/ \E rows \in 0..12 : calc = Calc("encode", CommandComplete(rows, SELECT))
       \/ calc = Calc("encode", ParseComplete)
       \/ calc = Calc("encode", BindComplete)
       \/ calc = Calc("encode", ParameterDescription(<<>>))
       \/ calc = Calc("encode", EmptyQueryResponse)
       \/ \E severity \in BackendTexts, code \in BackendTexts, message \in BackendTexts :
             calc = Calc("encode", ErrorResponse(severity, code, message))
       \/ \E m \in DataRows : calc = Calc("encode", m)
       \/ \E h \in QueryHandlers, table \in TableNames :
             calc = Calc("handle_query", [handler |-> h, table |-> table,
                                          query |-> select_from(table)])
       \/ \E data \in ShortFrames, ssl \in BOOLEAN :
             calc = Calc("data_received", [ssl |-> ssl, data |-> data])

Done(out) == [calc EXCEPT !.done = TRUE, !.out = out]

\* decoder.decode(data) on a buffer that holds part of one frame
Decode ==
    /\ calc.op = "decode" /\ ~calc.done
    /\ calc' = Done(decode(calc.arg.seen, calc.arg.ssl, calc.arg.data))
    /\ UNCHANGED <<handler, buffer, startup_seen, ssl_negotiated, pc, written, closed_at,
                   handled, sent>>

\* The decode loop on a buffer that holds a whole stream
DecodeAll ==
    /\ calc.op = "decode_all" /\ ~calc.done
    /\ calc' = Done(decode_all(FALSE, FALSE,
                               Concat([i \in 1..Len(calc.arg) |-> calc.arg[i].bytes]), <<>>))
    /\ UNCHANGED <<handler, buffer, startup_seen, ssl_negotiated, pc, written, closed_at,
                   handled, sent>>

\* message.encode()
Encode ==
    /\ calc.op = "encode" /\ ~calc.done
    /\ calc' = Done(encode_message(calc.arg))
    /\ UNCHANGED <<handler, buffer, startup_seen, ssl_negotiated, pc, written, closed_at,
                   handled, sent>>

\* _encode_numeric(v)
EncodeNumeric ==
    /\ calc.op = "encode_numeric" /\ ~calc.done
    /\ calc' = Done(encode_numeric(calc.arg))
    /\ UNCHANGED <<handler, buffer, startup_seen, ssl_negotiated, pc, written, closed_at,
                   handled, sent>>

\* handler.handle_query(Query(query))
HandleQuery ==
    /\ calc.op = "handle_query" /\ ~calc.done
    /\ calc' = Done(handle_query(calc.arg.handler, FrontendMessage("Query", calc.arg.query)))
    /\ UNCHANGED <<handler, buffer, startup_seen, ssl_negotiated, pc, written, closed_at,
                   handled, sent>>

\* The decode loop of data_received(data) on a new connection
DecodeLoop ==
    /\ calc.op = "data_received" /\ ~calc.done
    /\ calc' = Done(decode_all(FALSE, calc.arg.ssl, calc.arg.data, <<>>))
    /\ UNCHANGED <<handler, buffer, startup_seen, ssl_negotiated, pc, written, closed_at,
                   handled, sent>>

CodecNext == Decode \/ DecodeAll \/ Encode \/ EncodeNumeric \/ HandleQuery \/ DecodeLoop

CodecSpec == CodecInit /\ [][CodecNext]_vars

\* ------------------------------------------------------------------ observations

\* The messages connection 1 has handled, and its write calls
Handled1 == handled[1]
Written1 == written[1]

\* The write calls made while handling the i-th message
WritesOf(i) ==
    SubSeq(Written1, Handled1[i].first, Handled1[i].first + Handled1[i].count - 1)

TypeOf(i) == Handled1[i].message.type

\* The wire form of the backend messages, from the protocol's layouts
WireAuthenticationOk == <<82, 0, 0, 0, 8, 0, 0, 0, 0>>
WireServerVersion ==
    <<83, 0, 0, 0, 23, 115, 101, 114, 118, 101, 114, 95, 118, 101, 114, 115, 105, 111,
      110, 0, 57, 46, 50, 0>>
WireServerEncoding ==
    <<83, 0, 0, 0, 25, 115, 101, 114, 118, 101, 114, 95, 101, 110, 99, 111, 100, 105,
      110, 103, 0, 85, 84, 70, 56, 0>>
WireClientEncoding ==
    <<83, 0, 0, 0, 25, 99, 108, 105, 101, 110, 116, 95, 101, 110, 99, 111, 100, 105,
      110, 103, 0, 85, 84, 70, 56, 0>>
WireDateStyle ==
    <<83, 0, 0, 0, 22, 68, 97, 116, 101, 83, 116, 121, 108, 101, 0, 73, 83, 79, 32, 89,
      77, 66, 0>>
WireReadyForQueryIdle == <<90, 0, 0, 0, 5, 73>>
WireParseComplete == <<49, 0, 0, 0, 4>>
WireBindComplete == <<50, 0, 0, 0, 4>>
WireParameterDescription0 == <<116, 0, 0, 0, 6, 0, 0>>
\* RowDescriptor of the two text columns id and n
WireRowDescriptor ==
    <<84, 0, 0, 0, 47, 0, 2,
      105, 100, 0, 0, 0, 0, 0, 0, 0, 0, 0, 0, 25, 255, 255, 255, 255, 255, 255, 0, 0,
      110, 0, 0, 0, 0, 0, 0, 0, 0, 0, 0, 25, 255, 255, 255, 255, 255, 255, 0, 0>>

\* BackendKeyData: tag K, length 12, pid and secret
IsWireBackendKeyData(w) == Len(w) = 13 /\ SubSeq(w, 1, 5) = <<75, 0, 0, 0, 12>>

\* The seven-message startup sequence
IsStartupSequence(ws) ==
    /\ Len(ws) = 7
    /\ SubSeq(ws, 1, 5) = <<WireAuthenticationOk, WireServerVersion, WireServerEncoding,
                            WireClientEncoding, WireDateStyle>>
    /\ IsWireBackendKeyData(ws[6])
    /\ ws[7] = WireReadyForQueryIdle

\* ------------------------------------------------------------------ claims

\* C1: every handled StartupMessage is answered by exactly the seven messages
\* AuthenticationOk, ParameterStatus server_version=9.2, server_encoding=UTF8,
\* client_encoding=UTF8, DateStyle=ISO YMB, BackendKeyData, ReadyForQuery('I'),
\* in this order, and the decoder is in the post-startup phase from then on.
C1_StartupSequence ==
    \A i \in 1..Len(Handled1) :
        TypeOf(i) = "StartupMessage" =>
            /\ IsStartupSequence(WritesOf(i))
            /\ ~Handled1[i].close
            /\ startup_seen[1]

\* C1 happens: a StartupMessage with an empty parameter list has been handled.
C1_Witness ==
    \E i \in 1..Len(Handled1) :
        /\ TypeOf(i) = "StartupMessage"
        /\ Handled1[i].frame = <<0, 0, 0, 8, 0, 3, 0, 0>>
        /\ Handled1[i].message.parameters = <<>>

\* C2: an SSLRequest is answered by the single byte 'N' and leaves
\* startup_seen false: the message after it is again decoded in the
\* pre-startup layout, and a StartupMessage after any number of SSLRequests
\* gets the startup sequence ending in ReadyForQuery('I').
C2_SSLRequestThenStartup ==
    \A i \in 1..Len(Handled1) :
        TypeOf(i) = "SSLRequest" =>
            /\ WritesOf(i) = << <<78>> >>
            /\ ~Handled1[i].close
            /\ i = Len(Handled1) => ~startup_seen[1]
            /\ i < Len(Handled1) =>
                /\ TypeOf(i + 1) \in {"SSLRequest", "StartupMessage"}
                /\ TypeOf(i + 1) = "StartupMessage" => IsStartupSequence(WritesOf(i + 1))

\* C2 happens: two SSLRequests, then a StartupMessage, have been handled.
C2_Witness ==
    /\ Len(Handled1) >= 3
    /\ TypeOf(1) = "SSLRequest"
    /\ TypeOf(2) = "SSLRequest"
    /\ TypeOf(3) = "StartupMessage"
    /\ SubSeq(Written1, 1, 2) = << <<78>>, <<78>> >>

\* The transport was open when the i-th message was handled
OpenBefore(i) == \A j \in 1..(i - 1) : ~Handled1[j].close

\* The rows the adapter has
AdapterRows == Len(handler.factory.rows)

\* The statements of the client that are SELECT <cols> FROM t
SelectTexts == {sql_select, sql_select_lower}
\* The statements of the client that are no SELECT ... FROM <table>
NotSelectTexts == {sql_update, sql_select_1}

\* CommandComplete with the tag "SELECT n"
WireCommandCompleteSelect(n) ==
    <<67>> \o PackU32(12 + Len(Str(n))) \o <<83, 69, 76, 69, 67, 84, 32>> \o Str(n) \o <<0>>

\* ws is k DataRow messages, CommandComplete("SELECT k") and ReadyForQuery('I')
IsRowsThenComplete(ws, k) ==
    /\ Len(ws) = k + 2
    /\ \A r \in 1..k : ws[r][1] = 68
    /\ ws[k + 1] = WireCommandCompleteSelect(k)
    /\ ws[k + 2] = WireReadyForQueryIdle

\* C3: a Query SELECT <cols> FROM <table> over an adapter with k >= 1 rows
\* writes one RowDescriptor, k DataRow messages, CommandComplete("SELECT k")
\* and ReadyForQuery('I'), and leaves the transport open.
C3_SelectWritesRows ==
    \A i \in 1..Len(Handled1) :
        (/\ TypeOf(i) = "Query"
         /\ Handled1[i].message.text \in SelectTexts
         /\ AdapterRows >= 1
         /\ OpenBefore(i)) =>
            /\ Handled1[i].count = AdapterRows + 3
            /\ WritesOf(i)[1] = WireRowDescriptor
            /\ IsRowsThenComplete(Tail(WritesOf(i)), AdapterRows)
            /\ ~Handled1[i].close

\* C4: Parse; Bind; Execute; Sync writes ParseComplete, ParameterDescription(0),
\* RowDescriptor, BindComplete, an optional RowDescriptor, one DataRow per
\* adapter row, CommandComplete and ReadyForQuery('I'), and leaves the
\* transport open.
C4_ExtendedQueryFlow ==
    \A i \in 1..(Len(Handled1) - 3) :
        (/\ <<TypeOf(i), TypeOf(i + 1), TypeOf(i + 2), TypeOf(i + 3)>>
                = <<"Parse", "Bind", "Execute", "Sync">>
         /\ OpenBefore(i)) =>
            LET ws == WritesOf(i) \o WritesOf(i + 1) \o WritesOf(i + 2) \o WritesOf(i + 3)
                rest == SubSeq(ws, 5, Len(ws))
            IN  /\ Len(ws) >= 4
                /\ SubSeq(ws, 1, 4) = <<WireParseComplete, WireParameterDescription0,
                                        WireRowDescriptor, WireBindComplete>>
                /\ IsRowsThenComplete(IF rest # <<>> /\ rest[1] = WireRowDescriptor
                                      THEN Tail(rest) ELSE rest, AdapterRows)
                /\ \A j \in i..(i + 3) : ~Handled1[j].close

\* The query string of a Parse frame: the cstring after the statement name
ParseFrameQuery(frame) ==
    LET payload == SubSeq(frame, 6, Len(frame))
    IN  read_cstring(SliceFrom(payload, Len(read_cstring(payload)) + 1))

\* C5: after Parse(q), Execute does what Query(q) does on the same handler:
\* the same write calls, the adapter asked with q, and no rows where Query(q)
\* fails.
C5_ExecuteAsQuery ==
    \A i \in 1..Len(Handled1) : \A j \in (i + 1)..Len(Handled1) :
        (/\ TypeOf(i) = "Parse"
         /\ TypeOf(j) = "Execute"
         /\ \A m \in (i + 1)..(j - 1) : TypeOf(m) # "Parse"
         /\ OpenBefore(j)) =>
            LET asQuery == handle_message(handler,
                               FrontendMessage("Query", ParseFrameQuery(Handled1[i].frame)))
            IN  /\ WritesOf(j) = asQuery.writes
                /\ Handled1[j].sqls = asQuery.sqls

\* decimal digits to a number
RECURSIVE ParseDecimal(_)
ParseDecimal(ds) ==
    IF ds = <<>> THEN 0
    ELSE 10 * ParseDecimal(SubSeq(ds, 1, Len(ds) - 1)) + (ds[Len(ds)] - 48)

\* The index of the last RowDescriptor written before the j-th write, 0 if none
LastRowDescriptor(j) ==
    LET at == {t \in 1..(j - 1) : Written1[t][1] = 84}
    IN  IF at = {} THEN 0 ELSE CHOOSE t \in at : \A o \in at : t >= o

\* C6: every CommandComplete written carries the tag "SELECT n" with n the
\* number of DataRow messages written since the last RowDescriptor before it.
C6_CommandCompleteCount ==
    \A j \in 1..Len(Written1) :
        Written1[j][1] = 67 =>
            /\ Len(Written1[j]) >= 14
            /\ SubSeq(Written1[j], 6, 12) = <<83, 69, 76, 69, 67, 84, 32>>
            /\ Written1[j][Len(Written1[j])] = 0
            /\ ParseDecimal(SubSeq(Written1[j], 13, Len(Written1[j]) - 1))
                 = Cardinality({t \in (LastRowDescriptor(j) + 1)..(j - 1) :
                                    Written1[t][1] = 68})

\* C6 happens: a CommandComplete has been written after a RowDescriptor.
C6_Witness ==
    \E j \in 1..Len(Written1) : Written1[j][1] = 67 /\ LastRowDescriptor(j) > 0

\* The message a Sync's window starts after: the Sync before it, or the
\* StartupMessage when there is none
SyncWindowStart(j) ==
    LET at == {p \in 1..(j - 1) : TypeOf(p) \in {"Sync", "StartupMessage"}}
    IN  CHOOSE p \in at : \A o \in at : p >= o

\* A ReadyForQuery was written between the window start and the j-th message
ReadyForQuerySince(j) ==
    \E t \in (Handled1[SyncWindowStart(j)].first + Handled1[SyncWindowStart(j)].count)
             ..(Handled1[j].first - 1) : Written1[t][1] = 90

\* C7: a Sync writes ReadyForQuery('I') when none was written since the
\* previous Sync, and nothing when one was.
C7_SyncReadyForQuery ==
    \A j \in 1..Len(Handled1) :
        (TypeOf(j) = "Sync" /\ OpenBefore(j)) =>
            WritesOf(j) = IF ReadyForQuerySince(j) THEN <<>> ELSE <<WireReadyForQueryIdle>>

\* C8: a Describe writes a RowDescriptor with the handler's fields.
C8_DescribeRowDescriptor ==
    \A j \in 1..Len(Handled1) :
        (TypeOf(j) = "Describe" /\ OpenBefore(j)) =>
            WritesOf(j) = <<WireRowDescriptor>>

\* C9: a Parse writes exactly ParseComplete, ParameterDescription with zero
\* parameters and RowDescriptor(fields), a Bind writes exactly BindComplete,
\* and neither closes the transport.
C9_ParseAndBind ==
    \A j \in 1..Len(Handled1) :
        /\ TypeOf(j) = "Parse" =>
            /\ WritesOf(j) = <<WireParseComplete, WireParameterDescription0, WireRowDescriptor>>
            /\ ~Handled1[j].close
        /\ TypeOf(j) = "Bind" =>
            /\ WritesOf(j) = <<WireBindComplete>>
            /\ ~Handled1[j].close

\* C9 happens: a Parse and the Bind after it have been handled on an open
\* transport.
C9_Witness ==
    \E j \in 1..(Len(Handled1) - 1) :
        TypeOf(j) = "Parse" /\ TypeOf(j + 1) = "Bind" /\ closed_at[1] = -1

\* An ErrorResponse whose first field is the severity ERROR
IsWireErrorResponse(w) ==
    /\ Len(w) >= 12
    /\ w[1] = 69
    /\ SubSeq(w, 6, 12) = <<83, 69, 82, 82, 79, 82, 0>>

C11_NothingAfterException ==
    \A j \in 1..Len(Handled1) :
        Handled1[j].exc # "" =>
            /\ closed_at[1] # -1
            /\ closed_at[1] <= Handled1[j].first - 1
            /\ Handled1[j].count = 0
            /\ Len(Written1) = Handled1[j].first - 1

\* C14: the text a Parse message keeps is the query string of its frame.
C14_ParseKeepsQuery ==
    \A j \in 1..Len(Handled1) :
        TypeOf(j) = "Parse" =>
            Handled1[j].message.text = ParseFrameQuery(Handled1[j].frame)

\* The message decode returns for connection 1's buffer is Flush, or the None
\* of a tag without a branch
AtUnknownOrFlush ==
    /\ pc[1] = "loop"
    /\ LET result == decode(startup_seen[1], ssl_negotiated[1], buffer[1])
       IN  result.res = "ok" /\ result.message.type \in {"None", "Flush"}

\* The frames a client sends after startup, each tag's
IsRegularFrame(frame) ==
    /\ Len(frame) >= 5
    /\ Len(frame) = 1 + UnpackU32(Slice(frame, 1, 5))
    /\ frame \in RegularFrames

\* C15: handling a frame with an unrecognised tag, or a Flush frame, drops
\* exactly 1 + length bytes from the buffer, writes nothing and leaves
\* startup_seen and the transport's open/closed status as they were; the
\* message handled after it is decoded from a whole frame of the client.
C15_UnknownAndFlush ==
    /\ [][AtUnknownOrFlush =>
            /\ buffer'[1] = SliceFrom(buffer[1], 1 + UnpackU32(Slice(buffer[1], 1, 5)))
            /\ written' = written
            /\ closed_at' = closed_at
            /\ startup_seen' = startup_seen]_vars
    /\ [](\A j \in 1..(Len(Handled1) - 1) :
            TypeOf(j) \in {"None", "Flush"} =>
                /\ IsRegularFrame(Handled1[j].frame)
                /\ IsRegularFrame(Handled1[j + 1].frame))

\* C15 happens: a frame with an unrecognised tag, a Flush and a Query arrived
\* in one chunk and all three have been handled.
C15_Witness ==
    \E j \in 1..(Len(Handled1) - 2) :
        /\ <<TypeOf(j), TypeOf(j + 1), TypeOf(j + 2)>> = <<"None", "Flush", "Query">>
        /\ Handled1[j].frame = CloseFrame
        /\ Handled1[j + 2].frame = QueryFrame(sql_select)

\* ------------------------------------------------------------------ the codec's claims

\* C12: decode on a proper prefix of one valid frame, in either phase,
\* returns None: it does not raise, and so changes neither flag nor the
\* buffer.
C12_PrefixNeedsMoreBytes ==
    (calc.op = "decode" /\ calc.done) => calc.out.res = "None"

\* The sum of the consumed counts
RECURSIVE ConsumedSum(_)
ConsumedSum(decoded) ==
    IF decoded = <<>> THEN 0 ELSE Head(decoded).consumed + ConsumedSum(Tail(decoded))

\* C13: decoding a valid stream frame by frame yields one message per frame,
\* of the frame's class and in the frames' order; each count is the frame's
\* length, the counts sum to the stream's length, and the buffer ends empty
\* with decode asking for more bytes.
C13_StreamDecodes ==
    (calc.op = "decode_all" /\ calc.done) =>
        /\ calc.out.res = "None"
        /\ Len(calc.out.decoded) = Len(calc.arg)
        /\ \A i \in 1..Len(calc.arg) :
              /\ calc.out.decoded[i].message.type = calc.arg[i].kind
              /\ calc.out.decoded[i].consumed = Len(calc.arg[i].bytes)
        /\ ConsumedSum(calc.out.decoded)
             = Len(Concat([i \in 1..Len(calc.arg) |-> calc.arg[i].bytes]))
        /\ calc.out.buffer = <<>>

\* C13 happens: a stream of two SSLRequests, a StartupMessage with
\* parameters, a Parse and a Terminate has been decoded.
C13_Witness ==
    /\ calc.op = "decode_all" /\ calc.done
    /\ [i \in 1..Len(calc.arg) |-> calc.arg[i].kind]
         = <<"SSLRequest", "SSLRequest", "StartupMessage", "Parse", "Terminate">>
    /\ calc.arg[3].bytes = StartupFrame(FRONTEND_STARTUP, startup_parameters)
    /\ Len(calc.out.decoded) = 5

\* The tag byte of each backend message class
BackendTag(type) ==
    CASE type = "AuthenticationOk" -> 82
      [] type = "BackendKeyData" -> 75
      [] type = "ParameterStatus" -> 83
      [] type = "ReadyForQuery" -> 90
      [] type = "RowDescription" -> 84
      [] type = "DataRow" -> 68
      [] type = "CommandComplete" -> 67
      [] type = "ParseComplete" -> 49
      [] type = "BindComplete" -> 50
      [] type = "ParameterDescription" -> 116
      [] type = "ErrorResponse" -> 69
      [] type = "EmptyQueryResponse" -> 73

\* C16: encode() of a message of any class, on any input, returns the
\* class's tag byte and a 32-bit length that is 4 plus the number of bytes
\* after it.
C16_LengthField ==
    (calc.op = "encode" /\ calc.done) =>
        /\ calc.out.exc = ""
        /\ Len(calc.out.bytes) >= 5
        /\ calc.out.bytes[1] = BackendTag(calc.arg.type)
        /\ UnpackU32(Slice(calc.out.bytes, 1, 5)) = Len(calc.out.bytes) - 1

\* The 16-bit fields of an encoded NUMERIC: unsigned, and signed
U16At(bytes, i) == bytes[i] * 256 + bytes[i + 1]
I16At(bytes, i) == IF bytes[i] >= 128 THEN U16At(bytes, i) - 65536 ELSE U16At(bytes, i)

\* The base-10000 digits of an encoded NUMERIC
NumericDigits(bytes) == [i \in 1..((Len(bytes) - 12) \div 2) |-> U16At(bytes, 11 + 2 * i)]

\* Sum of digits[i] * 10000^(weight - i + groups), i from 0; -1 when a
\* non-zero digit lies below 10000^-groups
RECURSIVE NumericScaled(_, _, _)
NumericScaled(digits, weight, groups) ==
    IF digits = <<>> THEN 0
    ELSE LET rest == NumericScaled(Tail(digits), weight - 1, groups)
         IN  IF rest < 0 \/ (digits[1] # 0 /\ weight + groups < 0) THEN -1
             ELSE IF digits[1] = 0 THEN rest
             ELSE digits[1] * Pow(10000, weight + groups) + rest

\* C17: for a finite Decimal the encoded NUMERIC has the length prefix
\* 8 + 2 * ndigits, ndigits digits in 0..9999, dscale = max(0, -exponent),
\* the sign of the value, and digits and weight that give the value exactly
\* (compared after scaling both sides by 10000^ceil(dscale / 4)).
C17_NumericValue ==
    (calc.op = "encode_numeric" /\ calc.done /\ calc.arg.kind = "finite") =>
        LET bytes == calc.out.bytes
            coefficient == digits_to_int(calc.arg.digits)
            exponent == calc.arg.exponent
            dscale == IF exponent < 0 THEN -exponent ELSE 0
            groups == (dscale + 3) \div 4
            scaled == IF exponent >= 0 THEN coefficient * Pow(10, exponent)
                      ELSE coefficient * Pow(10, 4 * groups + exponent)
        IN  /\ calc.out.exc = ""
            /\ Len(bytes) >= 12
            /\ UnpackU32(Slice(bytes, 0, 4)) = 8 + 2 * U16At(bytes, 5)
            /\ Len(bytes) = 4 + 8 + 2 * U16At(bytes, 5)
            /\ \A i \in 1..U16At(bytes, 5) : NumericDigits(bytes)[i] \in 0..9999
            /\ U16At(bytes, 11) = dscale
            /\ U16At(bytes, 9) \in {0, 16384}
            /\ coefficient # 0 => (U16At(bytes, 9) = 16384 <=> calc.arg.sign = 1)
            /\ NumericScaled(NumericDigits(bytes), I16At(bytes, 7), groups) = scaled

\* C17 happens: -123.45 has been encoded, to the sign 0x4000, weight 0,
\* dscale 2 and the digits [123, 4500].
C17_Witness ==
    /\ calc.op = "encode_numeric" /\ calc.done
    /\ calc.arg = Decimal(1, <<1, 2, 3, 4, 5>>, -2)
    /\ calc.out.bytes = <<0, 0, 0, 12, 0, 2, 0, 0, 64, 0, 0, 2, 0, 123, 17, 148>>

\* C18: encoding a NaN returns the length prefix 8 and the header ndigits 0,
\* weight 0, sign 0xC000, dscale 0, each a 16-bit field, and no digits.
C18_NaNEncodes ==
    (calc.op = "encode_numeric" /\ calc.done /\ calc.arg.kind = "NaN") =>
        /\ calc.out.exc = ""
        /\ calc.out.bytes = <<0, 0, 0, 8, 0, 0, 0, 0, 192, 0, 0, 0>>

\* C19: a Decimal with coefficient zero, whatever its sign and exponent,
\* encodes to the length prefix 8 and ndigits 0, weight 0, sign 0x0000,
\* dscale max(0, -exponent); Decimal 0 to 00 00 00 08 and eight zero bytes.
C19_ZeroNumeric ==
    (/\ calc.op = "encode_numeric" /\ calc.done /\ calc.arg.kind = "finite"
     /\ digits_to_int(calc.arg.digits) = 0) =>
        /\ calc.out.exc = ""
        /\ calc.out.bytes = <<0, 0, 0, 8>> \o <<0, 0>> \o <<0, 0>> \o <<0, 0>>
                              \o PackU16(IF calc.arg.exponent < 0
                                         THEN -calc.arg.exponent ELSE 0)
        /\ calc.arg = Decimal(0, <<0>>, 0) =>
              calc.out.bytes = <<0, 0, 0, 8, 0, 0, 0, 0, 0, 0, 0, 0>>

\* C19 happens: -0.00 has been encoded, with sign 0 and dscale 2.
C19_Witness ==
    /\ calc.op = "encode_numeric" /\ calc.done
    /\ calc.arg = Decimal(1, <<0, 0, 0>>, -2)
    /\ calc.out.bytes = <<0, 0, 0, 8, 0, 0, 0, 0, 0, 0, 0, 2>>

\* bytes is, for each value from the i-th on, FF FF FF FF for a null and a
\* 32-bit length followed by that many bytes for any other value, and
\* nothing more
RECURSIVE IsValueList(_, _, _)
IsValueList(bytes, values, i) ==
    IF i > Len(values) THEN bytes = <<>>
    ELSE /\ Len(bytes) >= 4
         /\ IF values[i].t = "None"
            THEN /\ SubSeq(bytes, 1, 4) = <<255, 255, 255, 255>>
                 /\ IsValueList(SliceFrom(bytes, 4), values, i + 1)
            ELSE /\ bytes[1] < 128
                 /\ Len(bytes) >= 4 + UnpackU32(Slice(bytes, 0, 4))
                 /\ IsValueList(SliceFrom(bytes, 4 + UnpackU32(Slice(bytes, 0, 4))),
                                values, i + 1)

\* C20: DataRow.encode returns, for any row, nulls included, a uint16 count
\* of the values and then for each value a 32-bit length and that many
\* bytes, a null being the length -1 with no bytes.
C20_DataRowValues ==
    (calc.op = "encode" /\ calc.done /\ calc.arg.type = "DataRow") =>
        /\ calc.out.exc = ""
        /\ Len(calc.out.bytes) >= 7
        /\ U16At(calc.out.bytes, 6) = Len(calc.arg.values)
        /\ IsValueList(SliceFrom(calc.out.bytes, 7), calc.arg.values, 1)

\* ------------------------------------------------------------------ the handler's and the connection's claims

\* The type OID a Python type is described by
DeclaredOid(typ) ==
    CASE typ = "int" -> 23
      [] typ = "float" -> 701
      [] typ = "Decimal" -> 1700
      [] OTHER -> 25

\* C21: the handler's field descriptors are one per field of the record
\* shape, in declaration order, each with the OID of the field's declared
\* type (int4, float8, numeric in binary format, text in text format
\* otherwise).
C21_FieldsFollowTypes ==
    LET annotations == handler.factory.annotations
    IN  /\ Len(handler.fields) = Len(annotations)
        /\ \A i \in 1..Len(annotations) :
              /\ handler.fields[i].name = Lower(annotations[i].name)
              /\ handler.fields[i].type_oid = DeclaredOid(annotations[i].typ)
              /\ handler.fields[i].format = IF DeclaredOid(annotations[i].typ) = 25 THEN 0 ELSE 1

\* C24: a Terminate closes the transport, and what is written for it is one
\* ReadyForQuery('I'), written before the close.
C24_TerminateCloses ==
    \A j \in 1..Len(Handled1) :
        TypeOf(j) = "Terminate" =>
            /\ WritesOf(j) = <<WireReadyForQueryIdle>>
            /\ Handled1[j].close
            /\ closed_at[1] # -1
            /\ OpenBefore(j) => closed_at[1] = Handled1[j].first

\* C24 happens: a Terminate has been handled on an open transport.
C24_Witness ==
    \E j \in 1..Len(Handled1) :
        /\ TypeOf(j) = "Terminate"
        /\ OpenBefore(j)
        /\ Len(Written1) >= Handled1[j].first

\* C25: after a complete pre-startup frame with an unknown protocol number
\* or the CancelRequest code the transport is closed, nothing has been
\* written for the frame, and the connection is not in the post-startup
\* phase.
C25_BadProtocolCloses ==
    (/\ pc[1] = "raised"
     /\ ~startup_seen[1]
     /\ decode(startup_seen[1], ssl_negotiated[1], buffer[1]).exc
           \in {"NotImplementedError", "ValueError"}) =>
        /\ closed_at[1] # -1
        /\ closed_at[1] = Len(Written1)
        /\ ~startup_seen[1]

\* C26: once the transport is closed no message is passed to the handler
\* and nothing is written: every message was handled on an open transport,
\* and no write call follows the close.
C26_ClosedForGood ==
    /\ \A j \in 1..Len(Handled1) : OpenBefore(j)
    /\ closed_at[1] # -1 => Len(Written1) = closed_at[1]

\* C22 (the mismatch): with a declared table, a SELECT whose FROM table is
\* another name, compared as whole names without regard to case, fails and
\* returns no RowDescription and no DataRow.
C22_TableMismatchFails ==
    (/\ calc.op = "handle_query" /\ calc.done
     /\ Truthy(calc.arg.handler.table_name)
     /\ Lower(calc.arg.table) # Lower(calc.arg.handler.table_name)) =>
        /\ calc.out.exc # ""
        /\ calc.out.messages = <<>>

\* C27: the decode loop of data_received ends on every buffer, and every
\* decode that returns a message consumes at least one byte.
C27_DecodeLoopEnds ==
    (calc.op = "data_received" /\ calc.done) =>
        /\ calc.out.res # "loop"
        /\ \A i \in 1..Len(calc.out.decoded) : calc.out.decoded[i].consumed >= 1

\* ------------------------------------------------------------------ the connections' claim

\* The bytes connection c has received: the frames handled and the buffer
Received(c) == Concat([j \in 1..Len(handled[c]) |-> handled[c][j].frame]) \o buffer[c]

\* A connection on its own: the first n messages of data handled with handler h
RECURSIVE RunAlone(_, _, _, _)
RunAlone(h, data, n, conn) ==
    IF n = 0 THEN conn
    ELSE LET result == decode(conn.startup_seen, conn.ssl_negotiated, data)
         IN  IF result.res # "ok" THEN [conn EXCEPT !.stuck = TRUE]
             ELSE LET did == handle_message(h, result.message)
                  IN  RunAlone(h, SliceFrom(data, result.consumed), n - 1,
                               [startup_seen |-> result.startup_seen,
                                ssl_negotiated |-> result.ssl_negotiated,
                                written |-> conn.written \o did.writes,
                                closed_at |-> IF did.close /\ conn.closed_at = -1
                                              THEN Len(conn.written) + Len(did.writes)
                                              ELSE conn.closed_at,
                                consumed |-> conn.consumed + result.consumed,
                                stuck |-> FALSE])

NewConnection ==
    [startup_seen |-> FALSE, ssl_negotiated |-> FALSE, written |-> <<>>, closed_at |-> -1,
     consumed |-> 0, stuck |-> FALSE]

\* Connection c is where its own input alone takes it
OwnInputOnly(c) ==
    LET alone == RunAlone(handler, Received(c), Len(handled[c]), NewConnection)
    IN  /\ ~alone.stuck
        /\ written[c] = alone.written
        /\ startup_seen[c] = alone.startup_seen
        /\ ssl_negotiated[c] = alone.ssl_negotiated
        /\ closed_at[c] = alone.closed_at
        /\ buffer[c] = SliceFrom(Received(c), alone.consumed)

\* The state of connection d is left alone
Untouched(d) ==
    /\ buffer'[d] = buffer[d]
    /\ startup_seen'[d] = startup_seen[d]
    /\ ssl_negotiated'[d] = ssl_negotiated[d]
    /\ pc'[d] = pc[d]
    /\ written'[d] = written[d]
    /\ closed_at'[d] = closed_at[d]
    /\ handled'[d] = handled[d]
    /\ sent'[d] = sent[d]

\* C23: with the connections' chunks interleaved, every connection's writes
\* and decoder state are those its own input gives, a step of one connection
\* leaves every other connection's state alone, and the handler (its field
\* list with it) never changes.
C23_ConnectionsIndependent ==
    /\ [](\A c \in Conns : OwnInputOnly(c))
    /\ [][/\ handler' = handler
          /\ \E c \in Conns : \A d \in Conns \ {c} : Untouched(d)]_vars

\* Connection 1 is past its startup with bytes still to decode, and
\* connection 2 has been answered before its startup
C23_Witness ==
    /\ startup_seen[1] /\ pc[1] = "loop" /\ buffer[1] # <<>> /\ Len(written[1]) >= 1
    /\ ~startup_seen[2] /\ Len(written[2]) >= 1

====
